---------------------------- MODULE Spec2Model ----------------------------
(***************************************************************************)
(* A model of NYCSubwayTour: the files read by Feed.load, the transit      *)
(* graph built by Feed.__init__ (gtfs.py), the all-pairs shortest-path     *)
(* matrix of Feed.shortest_path_lengths, the leaves and leaf-branch        *)
(* lengths, and the best-first covering-tour search of tour.py.            *)
(*                                                                         *)
(* Durations of the graphs searched are naturals;                          *)
(* float('inf') is the number Inf with saturating addition.  The text of   *)
(* shortest_path_lengths.txt is a sequence of symbols: a stop_id is one    *)
(* symbol (the ids hold no comma and no blank), a number is its digits.    *)
(***************************************************************************)
EXTENDS Integers, Sequences, FiniteSets, TLC

VARIABLES
    run,               \* which run of the program this is: 1, 2, ...
    apsp_file,         \* the file shortest_path_lengths.txt, kept between runs
    files,             \* load: the lines of the files of the GTFS directory
    load,              \* load: its locals while the files are read
    input,             \* the records handed to Feed(stops, transfers, edges)
    pc,                \* "routes", "trips", "stop_times", "load_raised" in
                       \* load; "new", "feed", "raised" (reading the matrix
                       \* raised), "searching", "returned", "search_raised"
    err,               \* the exception that ended the run, [kind, a, b]
    stop_equivalents,  \* Feed.stop_equivalents
    stops,             \* Feed.stops: its keys, in insertion order
    transfers,         \* Feed.transfers, flattened, keys resolved
    edges,             \* Feed.edges, flattened, keys resolved
    spl,               \* Feed._shortest_path_lengths (NoMatrix: None)
    queue,             \* search: the heap list
    history,           \* search: state -> best f_cost seen
    result,            \* search: the node returned
    created            \* search: the nodes built by the last expansion

vars == <<run, apsp_file, files, load, input, pc, err, stop_equivalents, stops,
          transfers, edges, spl, queue, history, result, created>>

-----------------------------------------------------------------------------
(* Bounds of the inputs explored *)

\* durations and transfer times of the generated graphs range over 1..MaxDur
MaxDur == 2

\* float('inf'): larger than every finite path length of the explored graphs
Inf == 1000000

\* parent_station of a stop that has none (None)
NoParent == ""

\* _shortest_path_lengths before the first access (None); once set it is
\* <<table>>, the table a function of <<from_stop, to_stop>>
NoMatrix == <<>>

NoErr == [kind |-> "none", a |-> "", b |-> ""]

Min(a, b) == IF a <= b THEN a ELSE b

Range(s) == {s[i] : i \in DOMAIN s}

\* x + y on floats with inf
Plus(a, b) == IF a >= Inf \/ b >= Inf THEN Inf ELSE a + b

-----------------------------------------------------------------------------
(* Feed.__init__ *)

\* the last record of `all` with this stop_id (a dict keeps the last value)
StopOf(all, id) ==
    all[CHOOSE i \in DOMAIN all :
            /\ all[i].stop_id = id
            /\ \A j \in DOMAIN all : all[j].stop_id = id => j <= i]

\* a variant of RootOf with "if" for "while": it stops at the parent; with it
\* C17_EquivalentsAreRoots does not hold
RootOfParent(all, id) ==
    IF StopOf(all, id).parent_station = NoParent
    THEN id
    ELSE StopOf(all, id).parent_station

\* while stop.parent_station is not None: stop = all_stops[stop.parent_station]
RECURSIVE RootOf(_, _)
RootOf(all, id) ==
    IF StopOf(all, id).parent_station = NoParent
    THEN id
    ELSE RootOf(all, StopOf(all, id).parent_station)

StopEquivalents(all) ==
    [id \in {all[i].stop_id : i \in DOMAIN all} |-> RootOf(all, id)]

\* the keys of a dict filled in the order of `ids`: first insertion keeps the place
RECURSIVE KeysInOrder(_, _)
KeysInOrder(ids, seen) ==
    IF ids = <<>> THEN <<>>
    ELSE IF Head(ids) \in seen THEN KeysInOrder(Tail(ids), seen)
    ELSE <<Head(ids)>> \o KeysInOrder(Tail(ids), seen \cup {Head(ids)})

\* self.stops: the parentless stops, keyed by stop_id
ParentlessStops(all) ==
    LET ids == KeysInOrder([i \in DOMAIN all |-> all[i].stop_id], {})
    IN  SelectSeq(ids, LAMBDA id : StopOf(all, id).parent_station = NoParent)

\* d[from][to] = rec on a dict of dicts kept as a flat sequence: an existing
\* key keeps its place and takes the new value
PutTransfer(seq, rec) ==
    IF \E i \in DOMAIN seq :
           seq[i].from_stop = rec.from_stop /\ seq[i].to_stop = rec.to_stop
    THEN [i \in DOMAIN seq |->
            IF seq[i].from_stop = rec.from_stop /\ seq[i].to_stop = rec.to_stop
            THEN rec ELSE seq[i]]
    ELSE Append(seq, rec)

RECURSIVE BuildTransfers(_, _, _)
BuildTransfers(raw, eq, acc) ==
    IF raw = <<>> THEN acc
    ELSE BuildTransfers(Tail(raw), eq,
            PutTransfer(acc, [from_stop |-> eq[Head(raw).from_stop],
                              to_stop |-> eq[Head(raw).to_stop],
                              min_transfer_time |-> Head(raw).min_transfer_time]))

PutEdge(seq, rec) ==
    IF \E i \in DOMAIN seq :
           seq[i].from_id = rec.from_id /\ seq[i].to_id = rec.to_id
    THEN [i \in DOMAIN seq |->
            IF seq[i].from_id = rec.from_id /\ seq[i].to_id = rec.to_id
            THEN rec ELSE seq[i]]
    ELSE Append(seq, rec)

RECURSIVE BuildEdges(_, _, _)
BuildEdges(raw, eq, acc) ==
    IF raw = <<>> THEN acc
    ELSE BuildEdges(Tail(raw), eq,
            PutEdge(acc, [from_id |-> eq[Head(raw).from_id],
                          to_id |-> eq[Head(raw).to_id],
                          duration |-> Head(raw).duration,
                          intermediate_stops |->
                              [i \in DOMAIN Head(raw).intermediate_stops |->
                                  eq[Head(raw).intermediate_stops[i]]]]))

\* DoTransfer(from_stop, to_stop, transfer.min_transfer_time)
DoTransfer(t) ==
    [from_id |-> t.from_stop, to_id |-> t.to_stop,
     duration |-> t.min_transfer_time, intermediate_stops |-> <<>>]

\* Feed.neighbors over given edge and transfer maps: the edges out of
\* from_stop, then its transfers to other stops
NeighborsIn(es, ts, from_stop) ==
    SelectSeq(es, LAMBDA e : e.from_id = from_stop)
    \o LET out == SelectSeq(ts, LAMBDA t : t.from_stop = from_stop
                                           /\ t.from_stop # t.to_stop)
       IN  [i \in DOMAIN out |-> DoTransfer(out[i])]

\* a variant of RemoveIslanded that keeps every stop, islanded or not; with it
\* C6_OnlyKeptStopsNamed does not hold
RemoveIslandedKeepsAll(ss, es, ts) == ss

\* a variant of RemoveIslanded that counts a transfer from a stop to itself
\* as a neighbor; with it C15_KeptStopsHaveNeighbors does not hold
RemoveIslandedCountsSelf(ss, es, ts) ==
    SelectSeq(ss, LAMBDA s : \/ \E e \in Range(es) : e.from_id = s
                             \/ \E t \in Range(ts) : t.from_stop = s)

\* the stops that are kept: those with at least one neighbor
RemoveIslanded(ss, es, ts) ==
    SelectSeq(ss, LAMBDA s : Len(NeighborsIn(es, ts, s)) # 0)


-----------------------------------------------------------------------------
(* Feed.neighbors, Feed.leaves, Feed.distance, Feed.shortest_path_lengths *)

StopSet == Range(stops)

neighbors(from_stop) == NeighborsIn(edges, transfers, from_stop)

\* the stops with exactly one neighbor
leaves == {s \in StopSet : Len(neighbors(s)) = 1}

\* a variant of distance in which a transfer replaces the edge duration
\* instead of being compared with it; with it C8_MatrixIsShortest does not hold
distanceTransferReplaces(from_stop, to_stop) ==
    IF from_stop = to_stop THEN 0
    ELSE IF \E t \in Range(transfers) :
                t.from_stop = from_stop /\ t.to_stop = to_stop
         THEN (CHOOSE t \in Range(transfers) :
                  t.from_stop = from_stop /\ t.to_stop = to_stop
              ).min_transfer_time
         ELSE IF \E e \in Range(edges) :
                     e.from_id = from_stop /\ e.to_id = to_stop
              THEN (CHOOSE e \in Range(edges) :
                       e.from_id = from_stop /\ e.to_id = to_stop).duration
              ELSE Inf

distance(from_stop, to_stop) ==
    IF from_stop = to_stop THEN 0
    ELSE LET d == IF \E e \in Range(edges) :
                        e.from_id = from_stop /\ e.to_id = to_stop
                   THEN (CHOOSE e \in Range(edges) :
                            e.from_id = from_stop /\ e.to_id = to_stop).duration
                   ELSE Inf
         IN  IF \E t \in Range(transfers) :
                    t.from_stop = from_stop /\ t.to_stop = to_stop
             THEN Min(d, (CHOOSE t \in Range(transfers) :
                            t.from_stop = from_stop /\ t.to_stop = to_stop
                         ).min_transfer_time)
             ELSE d

\* the table before relaxation: one row per stop, one entry per stop
DirectMatrix == [p \in StopSet \X StopSet |-> distance(p[1], p[2])]

\* the place of a stop in ordered_stops
IndexOf(stop) == CHOOSE n \in DOMAIN stops : stops[n] = stop

\* a variant of RelaxRow that never writes a shorter distance; with it
\* C7_MatrixIsMetric does not hold
RelaxRowWritesNothing(d, k, i) == d

\* "for j in ordered_stops" for one k and one i, in place: d[k][j] is read
\* before it is written; d[i][k] is written at j = k, and the entries after
\* it are computed from the written value
RelaxRow(d, k, i) ==
    LET before == d[<<i, k>>]
        at == Plus(before, d[<<k, k>>])
        after == IF before > at THEN at ELSE before
    IN  [p \in DOMAIN d |->
            IF p[1] # i THEN d[p]
            ELSE LET via == IF IndexOf(p[2]) <= IndexOf(k) THEN before ELSE after
                     dist == Plus(via, d[<<k, p[2]>>])
                 IN  IF d[p] > dist THEN dist ELSE d[p]]

\* "for i in ordered_stops" for one k, from the n-th stop
RECURSIVE RelaxRows(_, _, _)
RelaxRows(d, k, n) ==
    IF n > Len(stops) THEN d
    ELSE RelaxRows(RelaxRow(d, k, stops[n]), k, n + 1)

\* "for k in ordered_stops", from the n-th stop
RECURSIVE Relax(_, _)
Relax(d, n) ==
    IF n > Len(stops) THEN d
    ELSE Relax(RelaxRows(d, stops[n], 1), n + 1)

ComputedMatrix == Relax(DirectMatrix, 1)

\* a variant of FirstInfinite with "distance > inf" for "distance >= inf",
\* which no entry satisfies; with it C9_InfiniteEntryRaises does not hold
FirstInfiniteStrict(m) ==
    LET N == Len(stops)
        bad == {n \in 0 .. (N * N - 1) :
                    m[<<stops[(n \div N) + 1], stops[(n % N) + 1]>>] > Inf}
    IN  IF bad = {} THEN <<>>
        ELSE LET n == CHOOSE x \in bad : \A y \in bad : x <= y
             IN  <<stops[(n \div N) + 1], stops[(n % N) + 1]>>

\* the first entry, row by row, that is infinite: <<from_node, to_node>>,
\* or <<>> when every entry is finite
FirstInfinite(m) ==
    LET N == Len(stops)
        bad == {n \in 0 .. (N * N - 1) :
                    m[<<stops[(n \div N) + 1], stops[(n % N) + 1]>>] >= Inf}
    IN  IF bad = {} THEN <<>>
        ELSE LET n == CHOOSE x \in bad : \A y \in bad : x <= y
             IN  <<stops[(n \div N) + 1], stops[(n % N) + 1]>>

\* ValueError(f"There is no path from {from_node} to {to_node}!") for the
\* first infinite entry of m, no error when there is none
NoPathError(m) ==
    LET pair == FirstInfinite(m)
    IN  IF pair = <<>> THEN NoErr
        ELSE [kind |-> "NoPath", a |-> pair[1], b |-> pair[2]]

-----------------------------------------------------------------------------
(* shortest_path_lengths.txt: f"{from_stop},{to_stop},{distance}\n" for     *)
(* every entry, row by row; read back by strip, split(","), strip, float     *)

\* no file shortest_path_lengths.txt in the working directory
NoApspFile == [exists |-> FALSE, lines |-> <<>>]

DigitChars == <<"0", "1", "2", "3", "4", "5", "6", "7", "8", "9">>

\* str of a number that is not negative: its decimal digits
RECURSIVE Digits(_)
Digits(n) ==
    IF n < 10 THEN <<DigitChars[n + 1]>>
    ELSE Append(Digits(n \div 10), DigitChars[(n % 10) + 1])

\* f"{distance}": "inf" for float('inf')
FormatDistance(dist) ==
    IF dist >= Inf THEN <<"i", "n", "f">> ELSE Digits(dist)

\* a variant of FormatLine that writes to_stop before from_stop; with it
\* C25_CacheProtocol does not hold
FormatLineSwapped(from_stop, to_stop, dist) ==
    <<to_stop, ",", from_stop, ",">> \o FormatDistance(dist) \o <<"\n">>

\* f"{from_stop},{to_stop},{distance}\n"
FormatLine(from_stop, to_stop, dist) ==
    <<from_stop, ",", to_stop, ",">> \o FormatDistance(dist) \o <<"\n">>

\* the lines written for the table m: for each row in the order of the
\* stops, for each entry of the row in the order of the stops
WrittenLines(m) ==
    LET N == Len(stops)
    IN  [n \in 1 .. (N * N) |->
            FormatLine(stops[((n - 1) \div N) + 1], stops[((n - 1) % N) + 1],
                       m[<<stops[((n - 1) \div N) + 1], stops[((n - 1) % N) + 1]>>])]

IsBlank(c) == c \in {" ", "\n", "\t"}

\* str.strip(): without the blanks at both ends
RECURSIVE Strip(_)
Strip(text) ==
    IF text = <<>> THEN <<>>
    ELSE IF IsBlank(Head(text)) THEN Strip(Tail(text))
    ELSE IF IsBlank(text[Len(text)]) THEN Strip(SubSeq(text, 1, Len(text) - 1))
    ELSE text

\* str.split(","): the pieces between the commas
RECURSIVE Split(_)
Split(text) ==
    IF \A i \in DOMAIN text : text[i] # "," THEN <<text>>
    ELSE LET c == CHOOSE i \in DOMAIN text :
                      text[i] = "," /\ \A j \in 1 .. (i - 1) : text[j] # ","
         IN  <<SubSeq(text, 1, c - 1)>> \o Split(SubSeq(text, c + 1, Len(text)))

RECURSIVE Number(_)
Number(digits) ==
    IF digits = <<>> THEN 0
    ELSE Number(SubSeq(digits, 1, Len(digits) - 1)) * 10
         + (CHOOSE k \in 0 .. 9 : DigitChars[k + 1] = digits[Len(digits)])

\* float(text) of the texts FormatDistance writes: [ok, val]; any other
\* text is not ok (ValueError)
Float(text) ==
    IF text = <<"i", "n", "f">> THEN [ok |-> TRUE, val |-> Inf]
    ELSE IF text # <<>> /\ \A i \in DOMAIN text : text[i] \in Range(DigitChars)
    THEN [ok |-> TRUE, val |-> Number(text)]
    ELSE [ok |-> FALSE, val |-> 0]

\* the stop_id that a piece of a line is: one symbol
Word(text) == IF Len(text) = 1 THEN text[1] ELSE ""

\* the loop over the lines of the file: [matrix, keys, err], the table read
\* so far as a function of <<from_stop, to_stop>>, its keys in the order of
\* the lines, and the ValueError of a line that does not have three pieces
\* or whose distance is not a number
RECURSIVE ReadLines(_, _, _)
ReadLines(lines, acc, keys) ==
    IF lines = <<>> THEN [matrix |-> acc, keys |-> keys, err |-> NoErr]
    ELSE LET pieces == Split(Strip(Head(lines)))
             from_stop == Word(Strip(pieces[1]))
             to_stop == Word(Strip(pieces[2]))
             dist == Float(Strip(pieces[3]))
         IN  IF Len(pieces) # 3 \/ ~ dist.ok
             THEN [matrix |-> acc, keys |-> keys,
                   err |-> [kind |-> "ValueError", a |-> "", b |-> ""]]
             ELSE ReadLines(Tail(lines),
                            IF <<from_stop, to_stop>> \in DOMAIN acc
                            THEN [acc EXCEPT ![<<from_stop, to_stop>>] = dist.val]
                            ELSE acc @@ (<<from_stop, to_stop>> :> dist.val),
                            Append(keys, <<from_stop, to_stop>>))

\* the first infinite entry of a table read from the file, in the order of
\* the dict: rows in the order they first appear, the entries of a row in
\* the order they first appear; <<>> when every entry is finite
FirstInfiniteRead(m, keys) ==
    LET rows == KeysInOrder([i \in DOMAIN keys |-> keys[i][1]], {})
        row(p) == CHOOSE r \in DOMAIN rows : rows[r] = p[1]
        first(p) == CHOOSE i \in DOMAIN keys :
                        keys[i] = p /\ \A j \in 1 .. (i - 1) : keys[j] # p
        before(p, q) == row(p) < row(q) \/ (row(p) = row(q) /\ first(p) <= first(q))
        bad == {p \in DOMAIN m : m[p] >= Inf}
    IN  IF bad = {} THEN <<>>
        ELSE CHOOSE p \in bad : \A q \in bad : before(p, q)

\* the table of the file and the error of reading it or of its first
\* infinite entry
ReadMatrix(lines) ==
    LET read == ReadLines(lines, <<>>, <<>>)
        pair == FirstInfiniteRead(read.matrix, read.keys)
    IN  [matrix |-> read.matrix,
         err |-> IF read.err # NoErr THEN read.err
                 ELSE IF pair = <<>> THEN NoErr
                 ELSE [kind |-> "NoPath", a |-> pair[1], b |-> pair[2]]]

\* an access of feed.shortest_path_lengths: [matrix, err, file].  The memo is
\* returned as it is; else, when shortest_path_lengths.txt exists, the table
\* is read from it; else the table is computed and written to the file; the
\* table is kept in _shortest_path_lengths, and its entries are checked
ShortestPathLengthsAccess ==
    IF spl # NoMatrix THEN [matrix |-> spl[1], err |-> NoErr, file |-> apsp_file]
    ELSE IF apsp_file.exists
    THEN LET read == ReadMatrix(apsp_file.lines)
         IN  [matrix |-> read.matrix, err |-> read.err, file |-> apsp_file]
    ELSE LET m == ComputedMatrix
         IN  [matrix |-> m, err |-> NoPathError(m),
              file |-> [exists |-> TRUE, lines |-> WrittenLines(m)]]

-----------------------------------------------------------------------------
(* Feed.leaf_branch_length *)

\* the walk from a leaf: while exactly one neighbor is not in history, step
\* to it; the node where the walk stops
RECURSIVE BranchNode(_, _)
BranchNode(node, hist) ==
    LET successors_ == {n.to_id : n \in Range(neighbors(node))} \ hist
    IN  IF Cardinality(successors_) # 1 THEN node
        ELSE LET next == CHOOSE s \in successors_ : TRUE
             IN  BranchNode(next, hist \cup {next})

\* leaf_branch_length[leaf] over the matrix m: the shortest path length from
\* the node where the walk stops to the leaf
LeafBranchLength(m, leaf) == m[<<BranchNode(leaf, {leaf}), leaf>>]

\* what heuristic and successors read of the feed: the stops, the leaves,
\* the matrix and the error of its access (and the file shortest_path_lengths.txt
\* after it), the leaf branch lengths, and
\* whether computing those raises KeyError (a walk ends at a station that has
\* no row in the matrix)
FeedView ==
    LET access == ShortestPathLengthsAccess
        keyed == {l \in leaves : BranchNode(l, {l}) \in StopSet}
    IN  [stops |-> stops,
         leaves |-> leaves,
         shortest_path_lengths |-> access.matrix,
         access_err |-> access.err,
         file |-> access.file,
         leaf_key_error |-> keyed # leaves,
         leaf_branch_length |-> [l \in keyed |-> LeafBranchLength(access.matrix, l)]]

-----------------------------------------------------------------------------
(* tour.heuristic *)

RECURSIVE SumOver(_, _)
SumOver(S, f) ==
    IF S = {} THEN 0
    ELSE LET x == CHOOSE y \in S : TRUE
         IN  Plus(f[x], SumOver(S \ {x}, f))

MaxOver(S, f) == CHOOSE v \in {f[x] : x \in S} : \A x \in S : f[x] <= v

\* heuristic(feed, from_node, remaining_stops): [err, val].  With unvisited
\* leaves, the sum of their leaf_branch_length; else the max over
\* remaining_stops of the shortest path length from from_node.  max() of
\* nothing raises ValueError; a station without a row raises KeyError; the
\* first access of the matrix raises when an entry is infinite.
heuristic(feed, from_node, remaining_stops) ==
    LET unvisited_leaves == feed.leaves \cap remaining_stops
    IN  IF unvisited_leaves # {}
        THEN IF feed.access_err # NoErr
             THEN [err |-> feed.access_err, val |-> 0]
             ELSE IF feed.leaf_key_error
             THEN [err |-> [kind |-> "KeyError", a |-> "", b |-> ""], val |-> 0]
             ELSE [err |-> NoErr,
                   val |-> SumOver(unvisited_leaves, feed.leaf_branch_length)]
        ELSE IF remaining_stops = {}
        THEN [err |-> [kind |-> "EmptyMax", a |-> "", b |-> ""], val |-> 0]
        ELSE IF feed.access_err # NoErr
        THEN [err |-> feed.access_err, val |-> 0]
        ELSE IF from_node \notin Range(feed.stops)
        THEN [err |-> [kind |-> "KeyError", a |-> "", b |-> ""], val |-> 0]
        ELSE [err |-> NoErr,
              val |-> MaxOver(remaining_stops,
                         [t \in remaining_stops |->
                             feed.shortest_path_lengths[<<from_node, t>>]])]

-----------------------------------------------------------------------------
(* tour.SearchNode.successors *)

SearchNode(remaining_stops, path, path_cost, f_cost) ==
    [remaining_stops |-> remaining_stops, path |-> path,
     path_cost |-> path_cost, f_cost |-> f_cost]

Last(s) == s[Len(s)]

\* what an expansion gives: the nodes yielded, every node built (those of a
\* forced move are built and not yielded), and the exception that ended it
Expansion(yielded, built, e) == [yielded |-> yielded, built |-> built, err |-> e]

\* the empty path: one node per stop that has exactly one neighbor
RECURSIVE InitialSuccessors(_, _, _)
\* a variant of InitialSuccessors that leaves the starting stop in the
\* unvisited set; with it C30_CreatedNodes does not hold
InitialSuccessorsKeepsStop(node, feed, n) ==
    IF n > Len(feed.stops) THEN Expansion(<<>>, <<>>, NoErr)
    ELSE IF Len(neighbors(feed.stops[n])) # 1 THEN InitialSuccessors(node, feed, n + 1)
    ELSE LET stop == feed.stops[n]
             remaining == node.remaining_stops
             h == heuristic(feed, stop, remaining)
         IN  IF h.err # NoErr THEN Expansion(<<>>, <<>>, h.err)
             ELSE LET first == SearchNode(remaining, <<stop>>, 0, h.val)
                      rest == InitialSuccessors(node, feed, n + 1)
                  IN  Expansion(<<first>> \o rest.yielded,
                                <<first>> \o rest.built, rest.err)

InitialSuccessors(node, feed, n) ==
    IF n > Len(feed.stops) THEN Expansion(<<>>, <<>>, NoErr)
    ELSE IF Len(neighbors(feed.stops[n])) # 1 THEN InitialSuccessors(node, feed, n + 1)
    ELSE LET stop == feed.stops[n]
             remaining == node.remaining_stops \ {stop}
             h == heuristic(feed, stop, remaining)
         IN  IF h.err # NoErr THEN Expansion(<<>>, <<>>, h.err)
             ELSE LET first == SearchNode(remaining, <<stop>>, 0, h.val)
                      rest == InitialSuccessors(node, feed, n + 1)
                  IN  Expansion(<<first>> \o rest.yielded,
                                <<first>> \o rest.built, rest.err)

\* is a neighbor that was visited skipped: only when some neighbor is new
SkipVisited(new_neighbors, neighbor, remaining_stops) ==
    Len(new_neighbors) > 0 /\ neighbor \notin remaining_stops

\* is the move forced: the node is not yielded, its successors are
ForcedMove(new_neighbors) == Len(new_neighbors) = 1

RECURSIVE successors(_, _)
RECURSIVE NeighborSuccessors(_, _, _, _)
\* a variant of NeighborSuccessors that leaves the intermediate stops of the
\* edge in the unvisited set; with it C23_SuccessorOfParent does not hold
NeighborSuccessorsKeepsIntermediates(node, feed, nbrs, n) ==
    LET new_neighbors ==
            SelectSeq(nbrs, LAMBDA e : e.to_id \in node.remaining_stops)
    IN  IF n > Len(nbrs) THEN Expansion(<<>>, <<>>, NoErr)
        ELSE IF SkipVisited(new_neighbors, nbrs[n].to_id, node.remaining_stops)
        THEN NeighborSuccessors(node, feed, nbrs, n + 1)
        ELSE LET edge == nbrs[n]
                 cost == node.path_cost + edge.duration
                 remaining == node.remaining_stops \ {edge.to_id}
                 h == heuristic(feed, edge.to_id, remaining)
                 succ == SearchNode(remaining, Append(node.path, edge.to_id),
                                    cost, cost + h.val)
             IN  IF h.err # NoErr THEN Expansion(<<>>, <<>>, h.err)
                 ELSE IF ForcedMove(new_neighbors)
                 THEN LET sub == successors(succ, feed)
                      IN  Expansion(sub.yielded, <<succ>> \o sub.built, sub.err)
                 ELSE LET rest == NeighborSuccessors(node, feed, nbrs, n + 1)
                      IN  Expansion(<<succ>> \o rest.yielded,
                                    <<succ>> \o rest.built, rest.err)

\* the loop over the neighbors of the last stop of the path, from the n-th
NeighborSuccessors(node, feed, nbrs, n) ==
    LET new_neighbors ==
            SelectSeq(nbrs, LAMBDA e : e.to_id \in node.remaining_stops)
    IN  IF n > Len(nbrs) THEN Expansion(<<>>, <<>>, NoErr)
        ELSE IF SkipVisited(new_neighbors, nbrs[n].to_id, node.remaining_stops)
        THEN NeighborSuccessors(node, feed, nbrs, n + 1)
        ELSE LET edge == nbrs[n]
                 cost == node.path_cost + edge.duration
                 remaining == (node.remaining_stops \ {edge.to_id})
                                  \ Range(edge.intermediate_stops)
                 h == heuristic(feed, edge.to_id, remaining)
                 succ == SearchNode(remaining, Append(node.path, edge.to_id),
                                    cost, cost + h.val)
             IN  IF h.err # NoErr THEN Expansion(<<>>, <<>>, h.err)
                 ELSE IF ForcedMove(new_neighbors)
                 THEN LET sub == successors(succ, feed)
                      IN  Expansion(sub.yielded, <<succ>> \o sub.built, sub.err)
                 ELSE LET rest == NeighborSuccessors(node, feed, nbrs, n + 1)
                      IN  Expansion(<<succ>> \o rest.yielded,
                                    <<succ>> \o rest.built, rest.err)

successors(node, feed) ==
    IF node.path = <<>> THEN InitialSuccessors(node, feed, 1)
    ELSE NeighborSuccessors(node, feed, neighbors(Last(node.path)), 1)


-----------------------------------------------------------------------------
(* heapq on a list of SearchNode, ordered by SearchNode.__lt__ (f_cost);   *)
(* positions are those of the list, from 0                                 *)

lt(a, b) == a.f_cost < b.f_cost

RECURSIVE SiftDownLoop(_, _, _, _)
SiftDownLoop(heap, startpos, pos, newitem) ==
    IF pos > startpos /\ lt(newitem, heap[((pos - 1) \div 2) + 1])
    THEN SiftDownLoop([heap EXCEPT ![pos + 1] = heap[((pos - 1) \div 2) + 1]],
                      startpos, (pos - 1) \div 2, newitem)
    ELSE [heap EXCEPT ![pos + 1] = newitem]

siftdown(heap, startpos, pos) == SiftDownLoop(heap, startpos, pos, heap[pos + 1])

RECURSIVE SiftUpLoop(_, _, _, _)
SiftUpLoop(heap, startpos, pos, newitem) ==
    LET endpos == Len(heap)
        leftpos == 2 * pos + 1
        rightpos == leftpos + 1
        childpos == IF rightpos < endpos
                       /\ ~ lt(heap[leftpos + 1], heap[rightpos + 1])
                    THEN rightpos ELSE leftpos
    IN  IF leftpos < endpos
        THEN SiftUpLoop([heap EXCEPT ![pos + 1] = heap[childpos + 1]],
                        startpos, childpos, newitem)
        ELSE siftdown([heap EXCEPT ![pos + 1] = newitem], startpos, pos)

siftup(heap, pos) == SiftUpLoop(heap, pos, pos, heap[pos + 1])

heappush(heap, item) == siftdown(Append(heap, item), 0, Len(heap))

\* a variant of heappop that returns the smallest item and leaves it on the
\* heap; with it C28_SearchTerminates does not hold
heappopLeavesItem(heap) == <<heap[1], heap>>

\* heappop: <<the item returned, the heap left>>
heappop(heap) ==
    LET lastelt == Last(heap)
        rest == SubSeq(heap, 1, Len(heap) - 1)
    IN  IF rest = <<>> THEN <<lastelt, rest>>
        ELSE <<rest[1], siftup([rest EXCEPT ![1] = lastelt], 0)>>

-----------------------------------------------------------------------------
(* tour.search *)

StateOf(node) == <<Last(node.path), node.remaining_stops>>

\* a variant of Pruned with "<" for "<=": a successor at the cost history
\* holds is kept; with it C20_HistoryDominance does not hold
PrunedStrictly(h, succ) == StateOf(succ) \in DOMAIN h /\ h[StateOf(succ)] < succ.f_cost

\* is a successor dropped: its state is in history at a cost not above its own
Pruned(h, succ) == StateOf(succ) \in DOMAIN h /\ h[StateOf(succ)] <= succ.f_cost

\* the body of "for succ in node.successors(feed)" over the yielded nodes:
\* [queue, history] after it
RECURSIVE Enqueue(_, _, _)
Enqueue(q, h, succs) ==
    IF succs = <<>> THEN [queue |-> q, history |-> h]
    ELSE IF Pruned(h, Head(succs)) THEN Enqueue(q, h, Tail(succs))
    ELSE Enqueue(heappush(q, Head(succs)),
                 [st \in DOMAIN h \cup {StateOf(Head(succs))} |->
                     IF st = StateOf(Head(succs)) THEN Head(succs).f_cost
                     ELSE h[st]],
                 Tail(succs))

\* is a popped node the result
IsGoal(node) == node.remaining_stops = {}


-----------------------------------------------------------------------------
(* The inputs explored *)

Stop(stop_id, parent_station) ==
    [stop_id |-> stop_id, parent_station |-> parent_station]

Transfer(from_stop, to_stop, min_transfer_time) ==
    [from_stop |-> from_stop, to_stop |-> to_stop,
     min_transfer_time |-> min_transfer_time]

Edge(from_id, to_id, duration, intermediate_stops) ==
    [from_id |-> from_id, to_id |-> to_id, duration |-> duration,
     intermediate_stops |-> intermediate_stops]

FeedInput(ss, ts, es) == [stops |-> ss, transfers |-> ts, edges |-> es]

\* the ordered pairs of the three stations of the generated graphs
PairSeq == << <<"A", "B">>, <<"A", "C">>, <<"B", "A">>,
              <<"B", "C">>, <<"C", "A">>, <<"C", "B">> >>

\* every directed graph on A, B, C: w gives each ordered pair a duration in
\* 1..MaxDur, or 0 for no edge; at most one transfer record
GeneratedInput(w, ts) ==
    LET present == SelectSeq(PairSeq, LAMBDA p : w[p] > 0)
    IN  FeedInput(<<Stop("A", NoParent), Stop("B", NoParent), Stop("C", NoParent)>>,
                  ts,
                  [i \in DOMAIN present |->
                      Edge(present[i][1], present[i][2], w[present[i]], <<>>)])

GeneratedInputs ==
    {GeneratedInput(w, ts) :
        w \in [Range(PairSeq) -> 0 .. MaxDur],
        ts \in {<<>>} \cup {<<Transfer("A", to, t)>> :
                                to \in {"A", "B"}, t \in 1 .. MaxDur}}

\* both directions of each link of a line, every edge of duration d
RECURSIVE LineEdges(_, _)
LineEdges(names, d) ==
    IF Len(names) < 2 THEN <<>>
    ELSE <<Edge(names[1], names[2], d, <<>>), Edge(names[2], names[1], d, <<>>)>>
         \o LineEdges(Tail(names), d)

PlainStops(names) == [i \in DOMAIN names |-> Stop(names[i], NoParent)]

\* scenario A: the line A-B-C-D, every edge 60 seconds, no transfers
ScenarioA ==
    FeedInput(PlainStops(<<"A", "B", "C", "D">>), <<>>,
              LineEdges(<<"A", "B", "C", "D">>, 60))

\* scenario B: the same line with a transfer between A and D of 30 seconds
ScenarioB ==
    FeedInput(PlainStops(<<"A", "B", "C", "D">>),
              <<Transfer("A", "D", 30), Transfer("D", "A", 30)>>,
              LineEdges(<<"A", "B", "C", "D">>, 60))

\* scenario C: the same line and a fifth station E with no edge, no transfer
ScenarioC ==
    FeedInput(PlainStops(<<"A", "B", "C", "D", "E">>), <<>>,
              LineEdges(<<"A", "B", "C", "D">>, 60))

\* the line and a fifth station E whose only edge is to itself
ScenarioSelfEdge ==
    FeedInput(PlainStops(<<"A", "B", "C", "D", "E">>), <<>>,
              LineEdges(<<"A", "B", "C", "D">>, 60) \o <<Edge("E", "E", 60, <<>>)>>)

\* a local line X-Y-Z and an express edge X-Z that passes Y
ScenarioExpress ==
    FeedInput(PlainStops(<<"X", "Y", "Z">>), <<>>,
              LineEdges(<<"X", "Y", "Z">>, 2)
              \o <<Edge("X", "Z", 3, <<"Y">>), Edge("Z", "X", 3, <<"Y">>)>>)

\* platforms A1, A2 of station A and B1 of station B; trips run between the
\* platforms, the transfer is between platforms of A
ScenarioPlatforms ==
    FeedInput(<<Stop("A", NoParent), Stop("A1", "A"), Stop("A2", "A"),
                Stop("B", NoParent), Stop("B1", "B"), Stop("C", NoParent)>>,
              <<Transfer("A1", "A2", 1), Transfer("B1", "C", 2)>>,
              <<Edge("A1", "B1", 1, <<>>), Edge("B1", "A2", 2, <<>>),
                Edge("A2", "B1", 3, <<>>), Edge("C", "B1", 1, <<"A2">>)>>)

\* every pair of B, A, C linked; the direct moves between A and C (an edge of
\* 5, a transfer of 4) are longer than the way through B
ScenarioDetour ==
    FeedInput(PlainStops(<<"B", "A", "C">>),
              <<Transfer("A", "C", 4), Transfer("C", "A", 4)>>,
              LineEdges(<<"A", "B", "C">>, 1)
              \o <<Edge("A", "C", 5, <<>>), Edge("C", "A", 5, <<>>)>>)

\* an entrance A1a of platform A1 of station A, a platform B1 of station B:
\* the trips and the transfer run between the entrance and the platforms
ScenarioDeepChain ==
    FeedInput(<<Stop("A1a", "A1"), Stop("A1", "A"), Stop("A", NoParent),
                Stop("B1", "B"), Stop("B", NoParent), Stop("C", NoParent)>>,
              <<Transfer("A1a", "B1", 1)>>,
              <<Edge("A1a", "C", 2, <<"B1">>), Edge("C", "A1", 2, <<>>),
                Edge("B1", "A1a", 1, <<>>)>>)

\* the line C-A-B-D, every edge 60 seconds, and a transfer from A to B of t
\* seconds beside the edge from A to B
ParallelMoves(t) ==
    FeedInput(PlainStops(<<"C", "A", "B", "D">>),
              <<Transfer("A", "B", t)>>,
              LineEdges(<<"C", "A", "B", "D">>, 60))

\* the transfer takes as long as the edge
ScenarioParallelEqual == ParallelMoves(60)

\* the transfer is faster than the edge
ScenarioParallelFast == ParallelMoves(30)

\* a hub H with a branch to S (1 to the hub, 2 back) and branches to P, Q, R
\* (1 each way); P, Q, R are also linked to each other by slow edges of 10
ScenarioHub ==
    FeedInput(PlainStops(<<"S", "H", "P", "Q", "R">>), <<>>,
              <<Edge("S", "H", 1, <<>>), Edge("H", "S", 2, <<>>)>>
              \o LineEdges(<<"P", "H", "Q">>, 1) \o LineEdges(<<"H", "R">>, 1)
              \o LineEdges(<<"P", "Q", "R">>, 10) \o LineEdges(<<"P", "R">>, 10))

\* the local line S-X-Y-Z-T, every edge 2, and an express edge of 3 between
\* X and Z that passes Y
ScenarioExpressLine ==
    FeedInput(PlainStops(<<"S", "X", "Y", "Z", "T">>), <<>>,
              LineEdges(<<"S", "X", "Y", "Z", "T">>, 2)
              \o <<Edge("X", "Z", 3, <<"Y">>), Edge("Z", "X", 3, <<"Y">>)>>)

\* the hub with every duration 0: S on a branch of the hub H, and P, Q, R
\* linked to the hub and to each other
ScenarioZeroDurations ==
    FeedInput(PlainStops(<<"S", "H", "P", "Q", "R">>), <<>>,
              LineEdges(<<"S", "H", "P">>, 0) \o LineEdges(<<"Q", "H", "R">>, 0)
              \o LineEdges(<<"P", "Q", "R">>, 0) \o LineEdges(<<"P", "R">>, 0))

\* no records at all
ScenarioEmpty == FeedInput(<<>>, <<>>, <<>>)

ScenarioInputs ==
    {ScenarioA, ScenarioB, ScenarioC, ScenarioSelfEdge, ScenarioExpress,
     ScenarioPlatforms, ScenarioDetour, ScenarioDeepChain,
     ScenarioParallelEqual, ScenarioParallelFast, ScenarioHub,
     ScenarioExpressLine, ScenarioZeroDurations, ScenarioEmpty}

Inputs == GeneratedInputs \cup ScenarioInputs

-----------------------------------------------------------------------------
(* Feed.load: routes.txt, trips.txt and stop_times.txt are read into the    *)
(* edges handed to Feed(...).  A line of a file is a record of the fields   *)
(* the code reads; arrival_time "HH:MM:SS" is <<HH, MM, SS>>.  The mean of  *)
(* the durations of a pair, a float in the source, is the exact fraction    *)
(* <<numerator, denominator>> in lowest terms.  routes_by_stop is left out. *)

\* 24 * 60 * 60, the seconds added to an arrival earlier than the last one
Day == 86400

\* a line of trips.txt
TripLine(route_id, trip_id) == [route_id |-> route_id, trip_id |-> trip_id]

\* a line of stop_times.txt
StopTimeLine(trip_id, stop_id, arrival_time, stop_sequence) ==
    [trip_id |-> trip_id, stop_id |-> stop_id, arrival_time |-> arrival_time,
     stop_sequence |-> stop_sequence]

\* the files of a GTFS directory: routes is the route_id of each line
FilesInput(routes, trips, stop_times, ss, ts) ==
    [routes |-> routes, trips |-> trips, stop_times |-> stop_times,
     stops |-> ss, transfers |-> ts]

\* no directory is loaded: the feed is constructed from records
NoFiles == <<>>

\* the locals of load before stop_times.txt is read
NoLoad ==
    [routes_by_id |-> {}, trips_by_id |-> <<>>, line |-> 0,
     edges |-> <<>>, trips |-> <<>>, trips_by_stop |-> <<>>,
     last_trip_id |-> "", last_seq |-> -1, last_stop_id |-> "-1",
     last_arrival_time |-> 0]

\* arrival_hour * 60 * 60 + arrival_min * 60 + arrival_sec
ParseTime(t) == t[1] * 60 * 60 + t[2] * 60 + t[3]

\* a variant of Rollover with "if" for "while": one day is added at most;
\* with it C12_RolloverDuration does not hold
RolloverOnce(arrival_time, last_arrival_time) ==
    IF arrival_time < last_arrival_time THEN arrival_time + Day ELSE arrival_time

\* while arrival_time < last_arrival_time: arrival_time += 24 * 60 * 60
RECURSIVE Rollover(_, _)
Rollover(arrival_time, last_arrival_time) ==
    IF arrival_time < last_arrival_time
    THEN Rollover(arrival_time + Day, last_arrival_time)
    ELSE arrival_time

\* d[key] = value on a dict kept as a function
Put(d, key, value) ==
    IF key \in DOMAIN d THEN [d EXCEPT ![key] = value] ELSE d @@ (key :> value)

\* a variant of UnknownRoute that accepts every route_id; with it
\* C18_UnknownReferenceAborts does not hold
UnknownRouteAccepted(trip_lines, routes_by_id) == ""

\* the first unknown route_id of trips.txt, "" when every route is known
RECURSIVE UnknownRoute(_, _)
UnknownRoute(trip_lines, routes_by_id) ==
    IF trip_lines = <<>> THEN ""
    ELSE IF Head(trip_lines).route_id \notin routes_by_id
         THEN Head(trip_lines).route_id
         ELSE UnknownRoute(Tail(trip_lines), routes_by_id)

\* trips_by_id after every line of trips.txt: trip_id -> route_id
RECURSIVE TripsById(_, _)
TripsById(trip_lines, acc) ==
    IF trip_lines = <<>> THEN acc
    ELSE TripsById(Tail(trip_lines),
                   Put(acc, Head(trip_lines).trip_id, Head(trip_lines).route_id))

\* edges[edge].append(d), or edges[edge] = [d] for a new pair; the dict is a
\* sequence in insertion order
AppendTime(es, from_id, to_id, d) ==
    IF \E i \in DOMAIN es : es[i].from_id = from_id /\ es[i].to_id = to_id
    THEN [i \in DOMAIN es |->
            IF es[i].from_id = from_id /\ es[i].to_id = to_id
            THEN [es[i] EXCEPT !.times = Append(@, d)] ELSE es[i]]
    ELSE Append(es, [from_id |-> from_id, to_id |-> to_id, times |-> <<d>>])

\* one line of stop_times.txt whose trip is known
LoadLine(l, rec) ==
    LET parsed == ParseTime(rec.arrival_time)
        follows == rec.trip_id = l.last_trip_id
                   /\ rec.stop_sequence = l.last_seq + 1
        arrival_time == IF follows THEN Rollover(parsed, l.last_arrival_time)
                        ELSE parsed
    IN  [l EXCEPT
            !.line = @ + 1,
            !.trips_by_stop =
                Put(@, rec.stop_id,
                    IF rec.stop_id \in DOMAIN @ THEN @[rec.stop_id] \cup {rec.trip_id}
                    ELSE {rec.trip_id}),
            !.edges = IF follows
                      THEN AppendTime(@, l.last_stop_id, rec.stop_id,
                                      arrival_time - l.last_arrival_time)
                      ELSE @,
            !.last_trip_id = rec.trip_id,
            !.last_seq = rec.stop_sequence,
            !.last_stop_id = rec.stop_id,
            !.last_arrival_time = arrival_time,
            !.trips =
                Put(@, rec.trip_id,
                    IF rec.trip_id \in DOMAIN @ THEN Append(@[rec.trip_id], rec.stop_id)
                    ELSE <<rec.stop_id>>)]

RECURSIVE SumSeq(_)
SumSeq(s) == IF s = <<>> THEN 0 ELSE Head(s) + SumSeq(Tail(s))

RECURSIVE GCD(_, _)
GCD(a, b) == IF b = 0 THEN a ELSE GCD(b, a % b)

\* sum(times) / len(times)
Mean(times) ==
    LET g == GCD(SumSeq(times), Len(times))
    IN  <<SumSeq(times) \div g, Len(times) \div g>>

\* list.index: the first place of x in s, 0 when x is not in s (ValueError)
IndexIn(s, x) ==
    IF \E i \in DOMAIN s : s[i] = x
    THEN CHOOSE i \in DOMAIN s : s[i] = x /\ \A j \in 1 .. (i - 1) : s[j] # x
    ELSE 0

\* a variant of Intermediates whose slice starts at from_id itself; with it
\* C13_ExpressIntermediates does not hold
IntermediatesFromStop(l, from_id, to_id) ==
    LET through == l.trips_by_stop[from_id] \cup l.trips_by_stop[to_id]
        both == {t \in through :
                    /\ IndexIn(l.trips[t], from_id) # 0
                    /\ IndexIn(l.trips[t], to_id) # 0}
        slice(t) == SubSeq(l.trips[t], IndexIn(l.trips[t], from_id),
                           IndexIn(l.trips[t], to_id) - 1)
    IN  {slice(t) : t \in both} \ {<<>>}

\* the set intermediates of an edge: for every trip through either end that
\* holds both ends, the stops after the first from_id and before the first
\* to_id, when there are any
Intermediates(l, from_id, to_id) ==
    LET through == l.trips_by_stop[from_id] \cup l.trips_by_stop[to_id]
        both == {t \in through :
                    /\ IndexIn(l.trips[t], from_id) # 0
                    /\ IndexIn(l.trips[t], to_id) # 0}
        slice(t) == SubSeq(l.trips[t], IndexIn(l.trips[t], from_id) + 1,
                           IndexIn(l.trips[t], to_id) - 1)
    IN  {slice(t) : t \in both} \ {<<>>}

\* the orders in which a set can be iterated
Orders(S) ==
    {o \in [1 .. Cardinality(S) -> S] : \A i, j \in DOMAIN o : o[i] = o[j] => i = j}

\* itertools.chain(*order)
RECURSIVE Chain(_)
Chain(order) == IF order = <<>> THEN <<>> ELSE Head(order) \o Chain(Tail(order))

\* the lists edge.intermediate_stops can be set to: the only pattern, or
\* several patterns chained in the order the set yields them, which depends
\* on the hashes of the strings (randomised for each process)
IntermediateStops(patterns) ==
    IF patterns = {} THEN {<<>>} ELSE {Chain(o) : o \in Orders(patterns)}

\* the edge lists load can hand to Feed(...): an Edge for each pair in
\* insertion order, its duration the mean of the times
LoadedEdges(l) ==
    LET choices(i) ==
            IntermediateStops(Intermediates(l, l.edges[i].from_id, l.edges[i].to_id))
    IN  {[i \in DOMAIN l.edges |->
            Edge(l.edges[i].from_id, l.edges[i].to_id, Mean(l.edges[i].times), c[i])] :
         c \in {f \in [DOMAIN l.edges -> UNION {choices(i) : i \in DOMAIN l.edges}] :
                    \A i \in DOMAIN l.edges : f[i] \in choices(i)}}

\* the generated directories hold at most MaxTrips trips
MaxTrips == 2

\* "HH:MM:SS" of the second `at` counted from a midnight: the clock wraps at
\* 24 hours
Clock(at) == <<(at % Day) \div 3600, (at % 3600) \div 60, at % 60>>

\* the stop_times lines of a trip over the stops of pattern, the first at
\* second `start`, the next ones gap seconds apart, stop_sequence 1, 2, ...
TripStopTimes(trip_id, pattern, start, gap) ==
    [k \in DOMAIN pattern |->
        StopTimeLine(trip_id, pattern[k], Clock(start + (k - 1) * gap), k)]

\* stations X, Y, Z, W and a platform X1 of X
LoadStops ==
    <<Stop("X", NoParent), Stop("X1", "X"), Stop("Y", NoParent),
      Stop("Z", NoParent), Stop("W", NoParent)>>

LoadTransfers == <<Transfer("Z", "X1", 120)>>

\* an express, two locals, a way back, a loop, an express from the platform
Patterns ==
    {<<"X", "Z">>, <<"X", "Y", "Z">>, <<"X", "W", "Z">>, <<"Z", "Y", "X">>,
     <<"Z", "X", "Y", "Z">>, <<"X1", "Z">>}

\* a trip starts at 23:59:30 or at 10:00:00
Starts == {86370, 36000}

\* seconds between two stops of a trip
Gaps == {40, 300}

TripIds == <<"T1", "T2", "T3">>

\* the route of each trip
TripRoutes == <<"R", "Q", "R">>

RECURSIVE TripLines(_)
TripLines(n) ==
    IF n = 0 THEN <<>>
    ELSE Append(TripLines(n - 1), TripLine(TripRoutes[n], TripIds[n]))

\* the stop_times lines of trips 1..n, trip by trip; cfg[k] is the
\* <<pattern, start, gap>> of trip k
RECURSIVE StopTimeLines(_, _)
StopTimeLines(cfg, n) ==
    IF n = 0 THEN <<>>
    ELSE StopTimeLines(cfg, n - 1)
         \o TripStopTimes(TripIds[n], cfg[n][1], cfg[n][2], cfg[n][3])

GeneratedFiles ==
    {FilesInput(routes, TripLines(MaxTrips), StopTimeLines(cfg, MaxTrips),
                LoadStops, LoadTransfers) :
        routes \in {<<"R", "Q">>, <<"R">>},
        cfg \in [1 .. MaxTrips -> Patterns \X Starts \X Gaps]}

\* an express X-Z over midnight and the locals X-Y-Z and X-W-Z
FilesExpressLocals ==
    FilesInput(<<"R", "Q">>, TripLines(3),
               TripStopTimes("T1", <<"X", "Z">>, 86370, 40)
               \o TripStopTimes("T2", <<"X", "Y", "Z">>, 36000, 60)
               \o TripStopTimes("T3", <<"X", "W", "Z">>, 39600, 60),
               LoadStops, LoadTransfers)

\* one trip that passes midnight twice: 23:59:30, 00:00:10, 23:59:50, 00:00:20
FilesTwoMidnights ==
    FilesInput(<<"R">>, TripLines(1),
               <<StopTimeLine("T1", "X", Clock(86370), 1),
                 StopTimeLine("T1", "Y", Clock(86410), 2),
                 StopTimeLine("T1", "Z", Clock(172790), 3),
                 StopTimeLine("T1", "W", Clock(172820), 4)>>,
               LoadStops, LoadTransfers)

\* a stop_times line of a trip that trips.txt does not hold
FilesUnknownTrip ==
    FilesInput(<<"R">>, TripLines(1),
               TripStopTimes("T1", <<"X", "Z">>, 36000, 40)
               \o TripStopTimes("T9", <<"Z", "X">>, 36000, 40),
               LoadStops, LoadTransfers)

FileInputs ==
    GeneratedFiles \cup {FilesExpressLocals, FilesTwoMidnights, FilesUnknownTrip}

-----------------------------------------------------------------------------
(* The program *)

Init ==
    /\ run = 1
    /\ apsp_file = NoApspFile
    /\ files = NoFiles
    /\ load = NoLoad
    /\ input \in Inputs
    /\ pc = "new"
    /\ err = NoErr
    /\ stop_equivalents = <<>>
    /\ stops = <<>>
    /\ transfers = <<>>
    /\ edges = <<>>
    /\ spl = NoMatrix
    /\ queue = <<>>
    /\ history = <<>>
    /\ result = <<>>
    /\ created = <<>>

\* Feed(stops, transfers, edges)
FeedInit ==
    /\ pc = "new"
    /\ LET eq == StopEquivalents(input.stops)
           ts == BuildTransfers(input.transfers, eq, <<>>)
           es == BuildEdges(input.edges, eq, <<>>)
       IN  /\ stop_equivalents' = eq
           /\ transfers' = ts
           /\ edges' = es
           /\ stops' = RemoveIslanded(ParentlessStops(input.stops), es, ts)
    /\ pc' = "feed"
    /\ UNCHANGED <<run, apsp_file, files, load, input, err, spl, queue, history,
                   result, created>>

\* a first access of feed.shortest_path_lengths from outside the search
ShortestPathLengths ==
    /\ pc = "feed"
    /\ spl = NoMatrix
    /\ LET access == ShortestPathLengthsAccess
       IN  /\ spl' = <<access.matrix>>
           /\ apsp_file' = access.file
           /\ err' = access.err
           /\ pc' = IF access.err = NoErr THEN "feed" ELSE "raised"
    /\ UNCHANGED <<run, files, load, input, stop_equivalents, stops, transfers,
                   edges, queue, history, result, created>>

\* search(feed), up to the loop
SearchBegin ==
    /\ pc = "feed"
    /\ queue' = <<SearchNode(StopSet, <<>>, 0, 0)>>
    /\ history' = <<>>
    /\ pc' = "searching"
    /\ UNCHANGED <<run, apsp_file, files, load, input, err, stop_equivalents,
                   stops, transfers, edges, spl, result, created>>

\* one iteration of "while queue": pop, return a goal or expand
SearchStep ==
    /\ pc = "searching"
    /\ queue # <<>>
    /\ LET node == heappop(queue)[1]
           rest == heappop(queue)[2]
       IN  IF IsGoal(node)
           THEN /\ result' = <<node>>
                /\ pc' = "returned"
                /\ queue' = rest
                /\ UNCHANGED <<err, spl, apsp_file, history, created>>
           ELSE \E feed \in {FeedView} :
                \E x \in {successors(node, feed)} :
                \E after \in {Enqueue(rest, history, x.yielded)} :
                    /\ queue' = after.queue
                    /\ history' = after.history
                    /\ created' = x.built
                    /\ err' = x.err
                    /\ pc' = IF x.err = NoErr THEN "searching" ELSE "search_raised"
                    \* the heuristic reads the matrix unless nothing remains
                    /\ spl' = IF x.built # <<>> \/ x.err.kind \in {"NoPath", "KeyError"}
                              THEN <<feed.shortest_path_lengths>> ELSE spl
                    /\ apsp_file' =
                          IF x.built # <<>> \/ x.err.kind \in {"NoPath", "KeyError"}
                          THEN feed.file ELSE apsp_file
                    /\ UNCHANGED result
    /\ UNCHANGED <<run, files, load, input, stop_equivalents, stops, transfers, edges>>

\* the queue is empty: raise ValueError("No solution!")
SearchExhausted ==
    /\ pc = "searching"
    /\ queue = <<>>
    /\ err' = [kind |-> "NoSolution", a |-> "", b |-> ""]
    /\ pc' = "search_raised"
    /\ UNCHANGED <<run, apsp_file, files, load, input, stop_equivalents, stops,
                   transfers, edges, spl, queue, history, result, created>>

Next ==
    \/ FeedInit
    \/ ShortestPathLengths
    \/ SearchBegin
    \/ SearchStep
    \/ SearchExhausted

Spec == Init /\ [][Next]_vars

\* the longest duration of the generated graphs searched to the end
MaxLiveDur == 1

\* the inputs searched to the end: every directed graph on A, B, C with
\* durations in 1..MaxLiveDur and no transfer, and the scenarios
LiveInit ==
    /\ Init
    /\ input \in {GeneratedInput(w, <<>>) : w \in [Range(PairSeq) -> 0 .. MaxLiveDur]}
                     \cup ScenarioInputs

\* ENABLED <<SearchStep>>_vars as a state predicate: an iteration of "while
\* queue" can be taken and leaves the state of the search changed
SearchStepEnabled ==
    /\ pc = "searching"
    /\ queue # <<>>
    /\ LET node == heappop(queue)[1]
           rest == heappop(queue)[2]
       IN  IF IsGoal(node)
           THEN <<result, pc, queue>> # << <<node>>, "returned", rest>>
           ELSE \E feed \in {FeedView} :
                \E x \in {successors(node, feed)} :
                \E after \in {Enqueue(rest, history, x.yielded)} :
                \E read \in {x.built # <<>> \/ x.err.kind \in {"NoPath", "KeyError"}} :
                    <<queue, history, created, err, pc, spl, apsp_file>>
                    # <<after.queue, after.history, x.built, x.err,
                        IF x.err = NoErr THEN "searching" ELSE "search_raised",
                        IF read THEN <<feed.shortest_path_lengths>> ELSE spl,
                        IF read THEN feed.file ELSE apsp_file>>

\* the program runs on: once search is called, the loop "while queue" takes
\* its next iteration whenever one can be taken (weak fairness of SearchStep,
\* with ENABLED written as SearchStepEnabled), and the raise after the loop
\* is executed
LiveSpec ==
    /\ LiveInit
    /\ [][Next]_vars
    /\ WF_vars(SearchExhausted)
    /\ ([]<>(~ SearchStepEnabled) \/ []<><<SearchStep>>_vars)


\* building the graph and reading the matrix, without the search
MatrixNext ==
    \/ FeedInit
    \/ ShortestPathLengths

MatrixSpec == Init /\ [][MatrixNext]_vars

\* the runs that follow one another over the same records
MaxRuns == 3

\* the process ends and the program is run again on the same records in the
\* same working directory: only shortest_path_lengths.txt is kept
NewRun ==
    /\ pc \in {"feed", "raised"}
    /\ spl # NoMatrix
    /\ run < MaxRuns
    /\ run' = run + 1
    /\ pc' = "new"
    /\ err' = NoErr
    /\ stop_equivalents' = <<>>
    /\ stops' = <<>>
    /\ transfers' = <<>>
    /\ edges' = <<>>
    /\ spl' = NoMatrix
    /\ UNCHANGED <<apsp_file, files, load, input, queue, history, result, created>>

CacheNext ==
    \/ FeedInit
    \/ ShortestPathLengths
    \/ NewRun

CacheSpec == Init /\ [][CacheNext]_vars

-----------------------------------------------------------------------------
(* Feed.load(path) of a directory, then Feed(...) *)

LoadInit ==
    /\ run = 1
    /\ apsp_file = NoApspFile
    /\ files \in FileInputs
    /\ load = NoLoad
    /\ input = ScenarioEmpty
    /\ pc = "routes"
    /\ err = NoErr
    /\ stop_equivalents = <<>>
    /\ stops = <<>>
    /\ transfers = <<>>
    /\ edges = <<>>
    /\ spl = NoMatrix
    /\ queue = <<>>
    /\ history = <<>>
    /\ result = <<>>
    /\ created = <<>>

\* routes.txt: routes_by_id
LoadRoutes ==
    /\ pc = "routes"
    /\ load' = [load EXCEPT !.routes_by_id = Range(files.routes)]
    /\ pc' = "trips"
    /\ UNCHANGED <<run, apsp_file, files, input, err, stop_equivalents, stops, transfers, edges,
                   spl, queue, history, result, created>>

\* trips.txt: Trip.parse of every line raises on an unknown route_id
LoadTrips ==
    /\ pc = "trips"
    /\ LET unknown == UnknownRoute(files.trips, load.routes_by_id)
       IN  IF unknown # ""
           THEN /\ err' = [kind |-> "UnknownRoute", a |-> unknown, b |-> ""]
                /\ pc' = "load_raised"
                /\ UNCHANGED load
           ELSE /\ load' = [load EXCEPT !.trips_by_id = TripsById(files.trips, <<>>)]
                /\ pc' = "stop_times"
                /\ UNCHANGED err
    /\ UNCHANGED <<run, apsp_file, files, input, stop_equivalents, stops, transfers, edges,
                   spl, queue, history, result, created>>

\* one line of stop_times.txt
LoadStopTime ==
    /\ pc = "stop_times"
    /\ load.line < Len(files.stop_times)
    /\ LET rec == files.stop_times[load.line + 1]
       IN  IF rec.trip_id \notin DOMAIN load.trips_by_id
           THEN /\ err' = [kind |-> "UnknownTrip", a |-> rec.trip_id, b |-> ""]
                /\ pc' = "load_raised"
                /\ UNCHANGED load
           ELSE /\ load' = LoadLine(load, rec)
                /\ UNCHANGED <<pc, err>>
    /\ UNCHANGED <<run, apsp_file, files, input, stop_equivalents, stops, transfers, edges,
                   spl, queue, history, result, created>>

\* after the last line: the Edge list with its intermediate stops, and the
\* arguments of cls(stops=..., transfers=..., edges=...)
LoadEdges ==
    /\ pc = "stop_times"
    /\ load.line = Len(files.stop_times)
    /\ \E es \in LoadedEdges(load) :
          input' = FeedInput(files.stops, files.transfers, es)
    /\ pc' = "new"
    /\ UNCHANGED <<run, apsp_file, files, load, err, stop_equivalents, stops, transfers, edges,
                   spl, queue, history, result, created>>

LoadNext ==
    \/ LoadRoutes
    \/ LoadTrips
    \/ LoadStopTime
    \/ LoadEdges
    \/ FeedInit

LoadSpec == LoadInit /\ [][LoadNext]_vars

-----------------------------------------------------------------------------
(* Reference definitions the claims are stated with: they are computed     *)
(* from the graph alone, not by the program's algorithms                   *)

\* every station an edge or a transfer of the feed names, kept or not
Stations ==
    StopSet \cup {e.from_id : e \in Range(edges)} \cup {e.to_id : e \in Range(edges)}
            \cup {t.from_stop : t \in Range(transfers)}
            \cup {t.to_stop : t \in Range(transfers)}

\* the durations of the direct moves from x to y: edges and transfers
DirectDurations(x, y) ==
    {e.duration : e \in {f \in Range(edges) : f.from_id = x /\ f.to_id = y}}
    \cup {t.min_transfer_time :
            t \in {u \in Range(transfers) : u.from_stop = x /\ u.to_stop = y}}

MinOf(S) == IF S = {} THEN Inf ELSE CHOOSE v \in S : \A u \in S : v <= u

\* the weight of the direct move from x to y: 0 on the diagonal, infinite when
\* there is neither an edge nor a transfer
DirectWeight(x, y) == IF x = y THEN 0 ELSE MinOf(DirectDurations(x, y))

\* the least total weight of a walk of at most n moves, for every pair
RECURSIVE WalkWeights(_)
WalkWeights(n) ==
    IF n <= 1 THEN [p \in Stations \X Stations |-> DirectWeight(p[1], p[2])]
    ELSE LET shorter == WalkWeights(n - 1)
         IN  [p \in Stations \X Stations |->
                MinOf({Plus(shorter[<<p[1], z>>], DirectWeight(z, p[2])) :
                         z \in Stations})]

\* the least total weight of a walk between every pair of stations: with no
\* negative weight a least walk repeats no station
TrueDistances == WalkWeights(Cardinality(Stations))

\* the least cost, over the distances td, of a walk from `from` that visits
\* every station of `remaining`: the stations are first visited in some order,
\* and between two of them the walk is a shortest one
RECURSIVE CoverCost(_, _, _)
CoverCost(td, from, remaining) ==
    IF remaining = {} THEN 0
    ELSE MinOf({Plus(td[<<from, r>>], CoverCost(td, r, remaining \ {r})) :
                  r \in remaining})

\* the least cost of a walk that visits every stop of the feed, from any stop
TourCost ==
    LET td == TrueDistances
    IN  MinOf({CoverCost(td, s, StopSet \ {s}) : s \in StopSet})

\* the stations of the input that no edge and no transfer connects to any
\* other station
Unconnected ==
    {s \in Range(ParentlessStops(input.stops)) :
        /\ \A e \in Range(edges) :
              (e.from_id = s \/ e.to_id = s) => e.from_id = e.to_id
        /\ \A t \in Range(transfers) :
              (t.from_stop = s \/ t.to_stop = s) => t.from_stop = t.to_stop}

\* the matrix was read and the read raised nothing
MatrixReturned == spl # NoMatrix /\ err.kind # "NoPath"

\* the search has ended, by a return or an exception
SearchEnded == pc \in {"returned", "search_raised"}

\* the stations of the input with no edge and no transfer to another station
\* out of them
NoWayOut ==
    {s \in Range(ParentlessStops(input.stops)) :
        /\ \A e \in Range(edges) : e.from_id # s
        /\ \A t \in Range(transfers) : t.from_stop = s => t.to_stop = s}


\* the moves a walk can make from from_stop with `remaining` left to visit:
\* every neighbor, or with the rule of successors only those it does not
\* skip (a visited neighbor is skipped when some neighbor is unvisited)
WalkMoves(from_stop, remaining, rule) ==
    LET nbrs == neighbors(from_stop)
        new_neighbors == SelectSeq(nbrs, LAMBDA e : e.to_id \in remaining)
    IN  {e \in Range(nbrs) :
            ~ (rule /\ SkipVisited(new_neighbors, e.to_id, remaining))}

\* the states of a walk: the station it is at and the stops left to visit
WalkStates == Stations \X SUBSET StopSet

\* the entry of a table of <<state, cost>> pairs for a state
CostAt(table, st) == (CHOOSE p \in table : p[1] = st)[2]

\* the least cost of completing coverage from every state in at most n
\* moves, a table of <<state, cost>>; a move costs the duration of the edge
\* or transfer and removes its destination and its intermediate stops from
\* the stops left
RECURSIVE CoverWithin(_, _)
CoverWithin(n, rule) ==
    IF n = 0 THEN {<<st, IF st[2] = {} THEN 0 ELSE Inf>> : st \in WalkStates}
    ELSE LET fewer == CoverWithin(n - 1, rule)
         IN  {<<st, IF st[2] = {} THEN 0
                    ELSE MinOf({Plus(e.duration,
                                     CostAt(fewer,
                                            <<e.to_id,
                                              (st[2] \ {e.to_id})
                                                 \ Range(e.intermediate_stops)>>)) :
                                  e \in WalkMoves(st[1], st[2], rule)})>> :
                st \in WalkStates}

\* the least cost of a walk that starts at a stop and covers every stop; a
\* least covering walk reaches each of the other stops for the first time
\* within a walk that, with no negative duration, repeats no station
MinCoveringWalk(rule) ==
    LET within == CoverWithin((Cardinality(Stations) - 1) * (Cardinality(StopSet) - 1),
                              rule)
    IN  MinOf({CostAt(within, <<s, StopSet \ {s}>>) : s \in StopSet})

-----------------------------------------------------------------------------
(* The claims *)

\* C3 (as claimed): search ends in "No solution!" only when no walk visits
\* every stop of the feed.
C3_NoSolutionOnlyWithoutTour ==
    err.kind = "NoSolution" => TourCost >= Inf

\* C4 (as claimed): on the line A-B-C-D, every edge 60, no transfers, search
\* returns a node whose path visits A, B, C, D at a path_cost of 180.
C4_LineReturns180 ==
    (input = ScenarioA /\ SearchEnded)
        => /\ pc = "returned"
           /\ result[1].path_cost = 180
           /\ Range(result[1].path) = {"A", "B", "C", "D"}

\* C5 (as claimed): on the same line with a transfer of 30 between A and D,
\* search returns the path A, B, C, D at a path_cost of 180.
C5_LineWithTransferReturns180 ==
    (input = ScenarioB /\ SearchEnded)
        => /\ pc = "returned"
           /\ result[1].path_cost = 180
           /\ result[1].path = <<"A", "B", "C", "D">>

\* C6 (as claimed): when a station has no edge and no transfer to or from
\* another station, reading the matrix raises the no-path error, and the
\* error names that station.
C6_UnconnectedStationNamed ==
    \A s \in Unconnected :
        spl # NoMatrix => (err.kind = "NoPath" /\ s \in {err.a, err.b})

\* C6 (amended): the stops kept are the parentless stations with an edge or a
\* transfer to another station out of them; the others have no row in the
\* matrix and no error names them.  Reading the matrix raises the no-path
\* error exactly when some kept stop has no walk to another kept stop, and the
\* error names such a pair.
C6_OnlyKeptStopsNamed ==
    spl # NoMatrix =>
        /\ StopSet = Range(ParentlessStops(input.stops)) \ NoWayOut
        /\ \A s \in NoWayOut : s \notin {err.a, err.b}
        /\ err.kind = "NoPath"
              <=> \E x, y \in StopSet : TrueDistances[<<x, y>>] >= Inf
        /\ err.kind = "NoPath"
              => /\ {err.a, err.b} \subseteq StopSet
                 /\ TrueDistances[<<err.a, err.b>>] >= Inf

\* a station with no edge and no transfer was dropped, and the matrix of the
\* kept stops was read without an error
C6_Witness ==
    /\ input = ScenarioC
    /\ "E" \in Unconnected
    /\ "E" \notin StopSet
    /\ Len(stops) = 4
    /\ MatrixReturned
    /\ pc = "feed"

\* C7: a matrix computed and returned without error has a zero diagonal, no
\* negative entry, and satisfies the triangle inequality.
C7_MatrixIsMetric ==
    MatrixReturned =>
        \A x, y, z \in StopSet :
            /\ spl[1][<<x, x>>] = 0
            /\ spl[1][<<x, y>>] >= 0
            /\ spl[1][<<x, y>>] <= spl[1][<<x, z>>] + spl[1][<<z, y>>]

\* a matrix was returned in which relaxation shortened a direct entry
C7_Witness ==
    /\ MatrixReturned
    /\ \E x, y \in StopSet :
          /\ distance(x, y) < Inf
          /\ spl[1][<<x, y>>] < distance(x, y)

\* C8: every entry of the computed matrix is the least total weight of a walk
\* between the two stops, the weight of a direct move being the smaller of the
\* edge duration and the transfer time.
C8_MatrixIsShortest ==
    spl # NoMatrix =>
        \A x, y \in StopSet : spl[1][<<x, y>>] = TrueDistances[<<x, y>>]

\* a matrix was computed for a pair with both an edge and a transfer, and for
\* a pair with neither whose entry is finite
C8_Witness ==
    /\ spl # NoMatrix
    /\ \E x, y \in StopSet : x # y /\ Cardinality(DirectDurations(x, y)) = 2
    /\ \E x, y \in StopSet :
          /\ DirectDurations(x, y) = {}
          /\ x # y
          /\ spl[1][<<x, y>>] < Inf

\* C9: a computed matrix with an infinite entry is never returned: the read
\* raises the no-path error, which names two stops whose entry is infinite.
C9_InfiniteEntryRaises ==
    (spl # NoMatrix /\ \E x, y \in StopSet : spl[1][<<x, y>>] >= Inf)
        => /\ pc \in {"raised", "search_raised"}
           /\ err.kind = "NoPath"
           /\ {err.a, err.b} \subseteq StopSet
           /\ spl[1][<<err.a, err.b>>] >= Inf

\* reading the matrix raised, and other entries of it are finite
C9_Witness ==
    /\ pc = "raised"
    /\ err.kind = "NoPath"
    /\ \E x, y \in StopSet : x # y /\ spl[1][<<x, y>>] < Inf

\* C10 (as claimed): for every node the search builds, the heuristic of its
\* state is at most the least cost of a walk from its last stop that visits
\* every stop it has left.
C10_HeuristicAdmissible ==
    \A n \in DOMAIN created :
        created[n].f_cost - created[n].path_cost
            <= CoverCost(TrueDistances, Last(created[n].path),
                         created[n].remaining_stops)

\* the last two lines of stop_times.txt that were read belong to one trip,
\* with consecutive sequence numbers
ConsecutiveLines(n) ==
    /\ n >= 2
    /\ files.stop_times[n].trip_id = files.stop_times[n - 1].trip_id
    /\ files.stop_times[n].stop_sequence = files.stop_times[n - 1].stop_sequence + 1

\* the durations recorded so far for the pair of stops
TimesOf(l, from_id, to_id) ==
    IF \E i \in DOMAIN l.edges :
           l.edges[i].from_id = from_id /\ l.edges[i].to_id = to_id
    THEN (CHOOSE e \in Range(l.edges) : e.from_id = from_id /\ e.to_id = to_id).times
    ELSE <<>>

\* C12: reading a line that follows the previous line of the same trip
\* records one more duration for the pair of stops; the duration is not
\* negative and is the clock time elapsed from the previous arrival to this
\* one, counted forward past midnight, so 23:59:30 then 00:00:10 gives 40;
\* the normalised arrival that is kept has advanced by the same duration.
C12_RolloverDuration ==
    [][(pc = "stop_times" /\ load'.line = load.line + 1
            /\ ConsecutiveLines(load.line + 1))
        => LET prev == files.stop_times[load.line]
               rec == files.stop_times[load.line + 1]
               before == TimesOf(load, prev.stop_id, rec.stop_id)
               after == TimesOf(load', prev.stop_id, rec.stop_id)
               d == after[Len(after)]
           IN  /\ Len(after) = Len(before) + 1
               /\ d >= 0
               /\ d = (ParseTime(rec.arrival_time) - ParseTime(prev.arrival_time)) % Day
               /\ load'.last_arrival_time = load.last_arrival_time + d]_vars

\* 23:59:30 then 00:00:10 of one trip were read, 40 was recorded for the
\* pair, and a later line of the same trip was read after midnight
C12_Witness ==
    /\ pc = "stop_times"
    /\ \E n \in 2 .. (load.line - 1) :
          /\ ConsecutiveLines(n)
          /\ ConsecutiveLines(n + 1)
          /\ files.stop_times[n - 1].arrival_time = <<23, 59, 30>>
          /\ files.stop_times[n].arrival_time = <<0, 0, 10>>
          /\ 40 \in Range(TimesOf(load, files.stop_times[n - 1].stop_id,
                                  files.stop_times[n].stop_id))
    /\ load.last_arrival_time >= Day

\* the stops of a trip, in the order of its lines in stop_times.txt
StopsOfTrip(t) ==
    LET own == SelectSeq(files.stop_times, LAMBDA r : r.trip_id = t)
    IN  [i \in DOMAIN own |-> own[i].stop_id]

\* the places of stop x in the sequence of stops s
Visits(s, x) == {i \in DOMAIN s : s[i] = x}

\* the stop patterns between x and z: for each trip that first visits x
\* before it first visits z, the stops strictly between the two visits, when
\* there are any
PatternsBetween(x, z) ==
    LET ts == {files.stop_times[i].trip_id : i \in DOMAIN files.stop_times}
        first(t, y) == CHOOSE i \in Visits(StopsOfTrip(t), y) :
                           \A j \in Visits(StopsOfTrip(t), y) : i <= j
        inorder == {t \in ts : /\ Visits(StopsOfTrip(t), x) # {}
                               /\ Visits(StopsOfTrip(t), z) # {}
                               /\ first(t, x) < first(t, z)}
    IN  {SubSeq(StopsOfTrip(t), first(t, x) + 1, first(t, z) - 1) : t \in inorder}
        \ {<<>>}

\* the directory was loaded and its edges were handed to Feed(...)
Loaded == files # NoFiles /\ pc \in {"new", "feed"}

C14_SameGraphTwice ==
    (Loaded /\ pc = "feed") =>
        \A again \in LoadedEdges(load) :
            /\ StopEquivalents(files.stops) = stop_equivalents
            /\ BuildEdges(again, StopEquivalents(files.stops), <<>>) = edges

\* the feed was constructed
FeedBuilt == pc \in {"feed", "raised", "searching", "returned", "search_raised"}

\* the stations that no edge and no transfer of the graph starts from or
\* leads to
NoEdgeNoTransfer ==
    {s \in Range(ParentlessStops(input.stops)) :
        /\ \A e \in Range(edges) : e.from_id # s /\ e.to_id # s
        /\ \A t \in Range(transfers) : t.from_stop # s /\ t.to_stop # s}

\* C15: once the feed is constructed, a station with no edge and no transfer
\* is not in feed.stops, every stop of feed.stops has at least one neighbor,
\* and the unvisited set of the initial node of the search is feed.stops.
C15_KeptStopsHaveNeighbors ==
    FeedBuilt =>
        /\ NoEdgeNoTransfer \cap StopSet = {}
        /\ \A s \in StopSet : Len(neighbors(s)) >= 1
        /\ \A n \in DOMAIN queue :
              queue[n].path = <<>> => queue[n].remaining_stops = StopSet

\* the search began on the line with the fifth station E, which has no edge
\* and no transfer: E is not in the unvisited set of the initial node
C15_Witness ==
    /\ input = ScenarioC
    /\ pc = "searching"
    /\ "E" \in NoEdgeNoTransfer
    /\ Len(queue) = 1
    /\ queue[1].path = <<>>
    /\ queue[1].remaining_stops = {"A", "B", "C", "D"}

\* the durations of the segments of the first n lines of stop_times.txt that
\* run from a stop of station x to a stop of station z: the clock time from
\* one arrival to the next, counted forward
RECURSIVE SegmentDurations(_, _, _)
SegmentDurations(n, x, z) ==
    IF n < 2 THEN <<>>
    ELSE LET prev == files.stop_times[n - 1]
             rec == files.stop_times[n]
             eq == StopEquivalents(files.stops)
         IN  IF /\ ConsecutiveLines(n)
                /\ eq[prev.stop_id] = x
                /\ eq[rec.stop_id] = z
             THEN Append(SegmentDurations(n - 1, x, z),
                         (ParseTime(rec.arrival_time)
                            - ParseTime(prev.arrival_time)) % Day)
             ELSE SegmentDurations(n - 1, x, z)

\* C16 (as claimed): the graph holds at most one edge for an ordered pair of
\* stations, and the duration of the edge is the mean of the durations of all
\* the trip segments between stops of the two stations.
C16_DurationIsMeanOfAll ==
    (Loaded /\ pc = "feed") =>
        /\ \A i, j \in DOMAIN edges :
              (edges[i].from_id = edges[j].from_id
                  /\ edges[i].to_id = edges[j].to_id) => i = j
        /\ \A e \in Range(edges) :
              LET all == SegmentDurations(Len(files.stop_times), e.from_id, e.to_id)
              IN  e.duration[1] * Len(all) = SumSeq(all) * e.duration[2]

\* the stop_ids of the records handed to Feed(...)
AllStopIds == {input.stops[i].stop_id : i \in DOMAIN input.stops}

\* parent_station of a stop_id of the records
ParentOf(id) == StopOf(input.stops, id).parent_station

\* the stops reached from id by at most n steps to the parent
RECURSIVE Ancestors(_, _)
Ancestors(id, n) ==
    IF n = 0 THEN {id}
    ELSE LET below == Ancestors(id, n - 1)
         IN  below \cup {ParentOf(a) : a \in {b \in below : ParentOf(b) # NoParent}}

\* the parentless stops
Roots == {id \in AllStopIds : ParentOf(id) = NoParent}

\* C17: stop_equivalents maps every stop_id to the parentless stop at the end
\* of its chain of parents, a parentless stop to itself, and the mapping
\* applied twice is the mapping; every end of an edge, every intermediate
\* stop of an edge and every key of the edge and transfer maps is parentless.
C17_EquivalentsAreRoots ==
    FeedBuilt =>
        /\ DOMAIN stop_equivalents = AllStopIds
        /\ \A id \in AllStopIds :
              /\ stop_equivalents[id] \in Roots \cap Ancestors(id, Len(input.stops))
              /\ stop_equivalents[stop_equivalents[id]] = stop_equivalents[id]
              /\ id \in Roots => stop_equivalents[id] = id
        /\ \A e \in Range(edges) :
              {e.from_id, e.to_id} \cup Range(e.intermediate_stops) \subseteq Roots
        /\ \A t \in Range(transfers) : {t.from_stop, t.to_stop} \subseteq Roots

\* a feed was built from records with a chain of two parents: the entrance
\* A1a is mapped to the station A, and so are the ends of its edges
C17_Witness ==
    /\ FeedBuilt
    /\ input = ScenarioDeepChain
    /\ ParentOf("A1a") = "A1"
    /\ ParentOf("A1") = "A"
    /\ stop_equivalents["A1a"] = "A"
    /\ \E e \in Range(edges) :
          e.from_id = "A" /\ e.to_id = "C" /\ e.intermediate_stops = <<"B">>
    /\ \E t \in Range(transfers) : t.from_stop = "A" /\ t.to_stop = "B"

\* the route_ids of trips.txt that routes.txt does not hold
RoutesNotDefined ==
    {files.trips[i].route_id : i \in DOMAIN files.trips} \ Range(files.routes)

\* the lines of stop_times.txt whose trip_id trips.txt does not hold
LinesOfTripsNotDefined ==
    {n \in DOMAIN files.stop_times :
        files.stop_times[n].trip_id
            \notin {files.trips[i].trip_id : i \in DOMAIN files.trips}}

\* C18: load goes past trips.txt only when every trip names a route of
\* routes.txt, and past a line of stop_times.txt only when the line names a
\* trip of trips.txt; otherwise it raises, the error names the unknown
\* identifier, and no Feed is constructed.
C18_UnknownReferenceAborts ==
    files # NoFiles =>
        /\ pc \in {"stop_times", "new", "feed"} => RoutesNotDefined = {}
        /\ pc = "stop_times" => \A n \in LinesOfTripsNotDefined : load.line < n
        /\ pc \in {"new", "feed"} => LinesOfTripsNotDefined = {}
        /\ pc = "load_raised" =>
              /\ \/ err.kind = "UnknownRoute" /\ err.a \in RoutesNotDefined
                 \/ /\ err.kind = "UnknownTrip"
                    /\ load.line + 1 \in LinesOfTripsNotDefined
                    /\ err.a = files.stop_times[load.line + 1].trip_id
              /\ input = ScenarioEmpty
              /\ stop_equivalents = <<>> /\ stops = <<>> /\ edges = <<>>

\* two lines of a known trip were read and the third names the trip T9,
\* which trips.txt does not hold: load raised
C18_Witness ==
    /\ files = FilesUnknownTrip
    /\ pc = "load_raised"
    /\ err.kind = "UnknownTrip"
    /\ err.a = "T9"
    /\ load.line = 2
    /\ RoutesNotDefined = {}

\* the two bounds of a state of the search: the largest shortest-path length
\* from the current station to an unvisited one, and the sum of the leaf
\* branch lengths of the unvisited leaves
FarthestUnvisited(feed, from_node, remaining_stops) ==
    MaxOver(remaining_stops,
            [t \in remaining_stops |-> feed.shortest_path_lengths[<<from_node, t>>]])

UnvisitedLeafBranches(feed, remaining_stops) ==
    SumOver(feed.leaves \cap remaining_stops, feed.leaf_branch_length)

\* C19 (as claimed): the heuristic of every node the search builds is at
\* least the largest shortest-path length from its station to an unvisited
\* station, and at least the sum of the leaf branch lengths of its unvisited
\* leaves.
C19_HeuristicIsLargerBound ==
    \A n \in DOMAIN created :
        LET node == created[n]
            h == node.f_cost - node.path_cost
            feed == FeedView
        IN  (Last(node.path) \in StopSet /\ node.remaining_stops # {}) =>
                /\ h >= FarthestUnvisited(feed, Last(node.path), node.remaining_stops)
                /\ h >= UnvisitedLeafBranches(feed, node.remaining_stops)

\* how many times v occurs in the sequence q
Count(q, v) == Cardinality({i \in DOMAIN q : q[i] = v})

\* the costs known for the state of the i-th yielded successor when its turn
\* comes: the cost history held before the expansion, and the f_cost of the
\* successors of the same state yielded before it
CostsBefore(h, ys, i) ==
    (IF StateOf(ys[i]) \in DOMAIN h THEN {h[StateOf(ys[i])]} ELSE {})
    \cup {ys[j].f_cost : j \in {k \in 1 .. (i - 1) : StateOf(ys[k]) = StateOf(ys[i])}}

\* the yielded successors that are not discarded: no cost known for the
\* state is less than or equal to the f_cost
KeptSuccessors(h, ys) ==
    SelectSeq([i \in DOMAIN ys |-> <<i, ys[i]>>],
              LAMBDA p : \A c \in CostsBefore(h, ys, p[1]) : c > p[2].f_cost)

\* C20: in an expansion, a successor is pushed exactly when history holds no
\* cost less than or equal to its f_cost for its state, and is discarded
\* otherwise; after the expansion history holds, for every state, the least
\* of the cost it held and the f_cost of the successors of that state, so an
\* entry never grows and is the least f_cost pushed for its state.
C20_HistoryDominance ==
    [][(pc = "searching" /\ queue # <<>> /\ ~IsGoal(heappop(queue)[1]))
        => LET rest == heappop(queue)[2]
               ys == successors(heappop(queue)[1], FeedView).yielded
               kept == KeptSuccessors(history, ys)
               states == DOMAIN history \cup {StateOf(ys[i]) : i \in DOMAIN ys}
           IN  /\ \A v \in Range(queue') \cup Range(rest) \cup Range(ys) :
                     Count(queue', v)
                        = Count(rest, v) + Count([i \in DOMAIN kept |-> kept[i][2]], v)
               /\ DOMAIN history' = states
               /\ \A st \in states :
                     history'[st] =
                        MinOf((IF st \in DOMAIN history THEN {history[st]} ELSE {})
                              \cup {ys[i].f_cost :
                                      i \in {k \in DOMAIN ys : StateOf(ys[k]) = st}})
               /\ \A st \in DOMAIN history : history'[st] <= history[st]
               /\ \A i \in DOMAIN kept :
                     history'[StateOf(kept[i][2])] <= kept[i][2].f_cost]_vars

\* an expansion built two successors for one state at one cost, by the edge
\* and by the transfer from A to B: the first was pushed, the second
\* discarded, and history holds the cost of the first
C20_Witness ==
    /\ input = ScenarioParallelEqual
    /\ pc = "searching"
    /\ \E i, j \in DOMAIN created :
          /\ i < j
          /\ StateOf(created[i]) = StateOf(created[j])
          /\ created[i].f_cost <= created[j].f_cost
          /\ Cardinality({k \in DOMAIN queue :
                            StateOf(queue[k]) = StateOf(created[i])}) = 1
          /\ history[StateOf(created[i])] = created[i].f_cost


\* C21 (as claimed): on every graph, the least cost of a covering walk that
\* never steps to a visited neighbor while an unvisited neighbor exists is
\* the least cost of a covering walk without that rule.
C21_PruningKeepsOptimum ==
    pc = "feed" => MinCoveringWalk(TRUE) = MinCoveringWalk(FALSE)


\* the stations that the edges and transfers out of a stop lead to
NeighbouringStations(s) == {e.to_id : e \in Range(neighbors(s))}

\* the stops with exactly one neighbouring station
LeafStations == {s \in StopSet : Cardinality(NeighbouringStations(s)) = 1}

\* C22 (as claimed): an expansion of the initial node that ends without an
\* error leaves in the queue exactly one node for each stop with exactly one
\* neighbouring station by edge or transfer, and no other node; the node of
\* a leaf has path (leaf,), path_cost 0, every other stop unvisited, and
\* the heuristic from the leaf as f_cost.
C22_OneNodePerLeaf ==
    [][(pc = "searching" /\ queue # <<>> /\ heappop(queue)[1].path = <<>>
            /\ pc' = "searching")
        => /\ Range(queue') =
                 {SearchNode(StopSet \ {l}, <<l>>, 0,
                             heuristic(FeedView, l, StopSet \ {l}).val) :
                    l \in LeafStations}
           /\ Len(queue') = Cardinality(LeafStations)]_vars


\* C23: every node built by the expansion of a node with a path, the nodes
\* of a forced chain included, extends the node expanded or a node built
\* before it in the chain by one edge or transfer out of its last stop: the
\* path is the parent's with the destination appended, path_cost is the
\* parent's plus the duration, the unvisited set is the parent's less the
\* destination and the intermediate stops, and f_cost is path_cost plus the
\* heuristic of the new state.
C23_SuccessorOfParent ==
    [][(pc = "searching" /\ queue # <<>> /\ heappop(queue)[1].path # <<>>
            /\ ~IsGoal(heappop(queue)[1]))
        => \A i \in DOMAIN created' :
              LET succ == created'[i]
                  parents == {heappop(queue)[1]} \cup {created'[j] : j \in 1 .. (i - 1)}
              IN  \E parent \in parents :
                      \E e \in Range(neighbors(Last(parent.path))) :
                          /\ succ.path = Append(parent.path, e.to_id)
                          /\ succ.path_cost = parent.path_cost + e.duration
                          /\ succ.remaining_stops =
                                (parent.remaining_stops \ {e.to_id})
                                    \ Range(e.intermediate_stops)
                          /\ succ.f_cost =
                                succ.path_cost
                                    + heuristic(FeedView, e.to_id,
                                                succ.remaining_stops).val]_vars

\* on the line with the express edge, the expansion of the start S built
\* the forced step to X and from it the step over the express edge to Z,
\* which takes Y out of the unvisited set
C23_Witness ==
    /\ input = ScenarioExpressLine
    /\ pc = "searching"
    /\ \E i, j \in DOMAIN created :
          /\ i < j
          /\ created[i].path = <<"S", "X">>
          /\ created[i].path_cost = 2
          /\ created[j].path = <<"S", "X", "Z">>
          /\ created[j].path_cost = 5
          /\ created[j].remaining_stops = {"T"}
          /\ created[j].f_cost = 7


\* the first station on the way from a leaf that offers more than one onward
\* choice: the walk follows the only station not yet seen; "" when the way
\* ends at a station with no onward choice
RECURSIVE BranchingStation(_, _)
BranchingStation(node, seen) ==
    LET onward == NeighbouringStations(node) \ seen
    IN  IF Cardinality(onward) > 1 THEN node
        ELSE IF onward = {} THEN ""
        ELSE LET next == CHOOSE n \in onward : TRUE
             IN  BranchingStation(next, seen \cup {next})

\* C24 (as claimed): once the matrix is read, leaf_branch_length of a leaf
\* with a branching station on its way is the least cost of a walk from the
\* leaf to that station.
C24_LeafToBranchDistance ==
    (pc = "feed" /\ MatrixReturned) =>
        \A l \in leaves :
            LET branch == BranchingStation(l, {l})
            IN  branch \in StopSet =>
                    FeedView.leaf_branch_length[l] = TrueDistances[<<l, branch>>]


\* the (from, to, distance) that the lines of the file read as
TriplesOf(lines) ==
    {LET pieces == Split(Strip(lines[n]))
     IN  IF Len(pieces) # 3 THEN <<>>
         ELSE <<Word(Strip(pieces[1])), Word(Strip(pieces[2])),
                Float(Strip(pieces[3])).val>> : n \in DOMAIN lines}

\* C25: a first access of shortest_path_lengths with no file computes the
\* matrix by relaxation and writes one (from, to, distance) line for each
\* entry; with the file present the access takes the matrix from the file
\* and leaves the file as it is, and the matrix it takes is, entry for
\* entry, the matrix that relaxation gives for the graph.
C25_CacheProtocol ==
    [][(spl = NoMatrix /\ spl' # NoMatrix)
        => IF apsp_file.exists
           THEN /\ apsp_file' = apsp_file
                /\ DOMAIN spl'[1] = StopSet \X StopSet
                /\ \A p \in StopSet \X StopSet : spl'[1][p] = ComputedMatrix[p]
           ELSE /\ spl'[1] = ComputedMatrix
                /\ apsp_file'.exists
                /\ Len(apsp_file'.lines) = Len(stops) * Len(stops)
                /\ TriplesOf(apsp_file'.lines) =
                      {<<p[1], p[2], ComputedMatrix[p]>> : p \in StopSet \X StopSet}]_vars

\* a second run on the line A-B-C-D found the file of sixteen lines that the
\* first run wrote and took the matrix from it: 180 from A to D
C25_Witness ==
    /\ input = ScenarioA
    /\ run = 2
    /\ pc = "feed"
    /\ spl # NoMatrix
    /\ apsp_file.exists
    /\ Len(apsp_file.lines) = 16
    /\ spl[1][<<"A", "D">>] = 180


\* C26 (as claimed): the heuristic has a value for every state the search
\* builds, 0 for a state with nothing left to visit, so a search never ends
\* with the error of a heuristic that has no value, and a node built with
\* an empty unvisited set has its path_cost as f_cost.
C26_HeuristicDefinedOnEmpty ==
    /\ err.kind # "EmptyMax"
    /\ \A n \in DOMAIN created :
          created[n].remaining_stops = {} => created[n].f_cost = created[n].path_cost

\* C27 (as claimed): once the feed is constructed, every edge or transfer
\* that neighbors yields for a stop of feed.stops leads to a stop of
\* feed.stops.
C27_RetainedGraphClosed ==
    FeedBuilt =>
        \A s \in StopSet : \A e \in Range(neighbors(s)) : e.to_id \in StopSet

\* C28: on every finite graph with non-negative durations search terminates:
\* once the loop of search is entered, search eventually returns a node or
\* raises.
C28_SearchTerminates == (pc = "searching") ~> SearchEnded

\* a search over a graph with an edge of duration 0 that ended after a node
\* yielded by the expansion of a non-empty path had been enqueued
C28_Witness ==
    /\ SearchEnded
    /\ \E e \in Range(edges) : e.duration = 0
    /\ \E st \in DOMAIN history : Cardinality(st[2]) + 2 <= Cardinality(StopSet)

\* C30: of every SearchNode created during a search, the unvisited set is a
\* subset of feed.stops and holds no station of the node's path, and it is a
\* subset of the unvisited set of the node it was built from.
C30_CreatedNodes ==
    [][/\ \A n \in Range(queue') \cup Range(created') :
             /\ n.remaining_stops \subseteq StopSet'
             /\ Range(n.path) \cap n.remaining_stops = {}
       /\ (pc = "searching" /\ queue # <<>> /\ ~ IsGoal(heappop(queue)[1])) =>
             \A n \in Range(created') :
                /\ \E m \in {heappop(queue)[1]} \cup Range(created') :
                      m.path = SubSeq(n.path, 1, Len(n.path) - 1)
                /\ \A m \in {heappop(queue)[1]} \cup Range(created') :
                      m.path = SubSeq(n.path, 1, Len(n.path) - 1) =>
                          n.remaining_stops \subseteq m.remaining_stops
      ]_vars

\* an expansion built a node behind a forced move, three stations into its
\* path and with stations left, next to the node it was built from
C30_Witness ==
    \E n \in Range(created) :
        /\ Len(n.path) >= 3
        /\ n.remaining_stops # {}
        /\ \E m \in Range(created) :
              /\ m.path = SubSeq(n.path, 1, Len(n.path) - 1)
              /\ n.remaining_stops \subseteq m.remaining_stops
              /\ n.remaining_stops # m.remaining_stops

=============================================================================
